---- MODULE Spec2Model ----
(***************************************************************************)
(* Model of controllers/chat.go (src/unnamed/part_001): the connection hub *)
(* (Hub.run), the handshake handler (WebSocketChat) and the two pumps of   *)
(* every Client (readPump, writePump).                                     *)
(*                                                                         *)
(* The three Hub channels are unbuffered, so a send on one of them and the *)
(* Hub's receive are one rendezvous step: a goroutine that is offering an  *)
(* event sits at the matching program counter and the Hub action takes it. *)
(* A Go panic (close of a closed channel, send on a closed channel) is not *)
(* recovered anywhere in the file, so it ends the process: crashed.        *)
(* time.Now() is modelled by the stamp of the write that read the clock.   *)
(* Updates of the users collection are applied (the code ignores their     *)
(* result); InsertOne on the messages collection may fail.  Connections    *)
(* are numbered in the order of their handshakes.  Senders blocked on one  *)
(* channel are received from in the order they blocked; among the three    *)
(* channels the select of Hub.run is free to choose.                       *)
(***************************************************************************)
EXTENDS Integers, Sequences, FiniteSets, TLC

\* ---------------------------------------------------------------- bounds
\* handshakes over the life of the process
MaxConns == 2
\* messages that get an id (primitive.NewObjectID)
MaxMsgs == 2
\* capacity of Client.Send, 256 in make(chan models.Message, 256), scaled down
QueueCap == 1

Conns == 1..MaxConns
Users == {"A", "B"}

\* ------------------------------------------------- handshake credentials
Tokens == {"", "bad", "noid", "tokA", "tokB"}

TokenValid(t) == t \in {"noid", "tokA", "tokB"}

ClaimUserID(t) == IF t = "tokA" THEN "A" ELSE IF t = "tokB" THEN "B" ELSE ""

\* ------------------------------------------------------ inbound requests
AllowedTypes == {"text"}
MaxContentLen == 2
Contents == {<<>>, <<"h", "i">>, <<"h", "i", "!">>}
\* both well-formed requests, and one request per way of failing validation
Requests ==
    [receiver_id : Users \cup {""}, content : {<<"h", "i">>}, type : {"text"}]
    \cup [receiver_id : {"B"}, content : Contents, type : {"text"}]
    \cup [receiver_id : {"B"}, content : {<<"h", "i">>}, type : {"bogus"}]
NoReq == [receiver_id |-> "", content |-> <<>>, type |-> ""]
NoMsg == [id |-> 0, sender_id |-> "", receiver_id |-> "", content |-> <<>>, type |-> "", read |-> FALSE]

Validate(r) ==
    (IF r.receiver_id = "" THEN <<"receiver_id is required">> ELSE <<>>)
    \o (IF Len(r.content) = 0 THEN <<"content is required">> ELSE <<>>)
    \o (IF Len(r.content) > MaxContentLen THEN <<"content too long">> ELSE <<>>)
    \o (IF r.type \notin AllowedTypes THEN <<"invalid type">> ELSE <<>>)

VARIABLES
    hpc,        \* WebSocketChat position per transport
    rpc,        \* readPump position per Client
    wpc,        \* writePump position per Client
    UserID,     \* Client.UserID
    Send,       \* Client.Send: buffered items
    closed,     \* Client.Send has been closed
    sockClosed, \* Client.Conn has been closed
    Clients,    \* Hub.Clients
    msgReq,     \* readPump local msgReq
    message,    \* readPump local message
    messages,   \* the "messages" collection
    users,      \* the "users" collection: online, last_seen
    nextId,     \* primitive.NewObjectID
    crashed,    \* the process ended on an unrecovered panic
    refreshed,  \* history: ids whose sender last_seen refresh was issued
    failed,     \* history: ids whose InsertOne failed
    dispatched, \* history: ids the Hub received on Broadcast
    regSince,   \* history: a Register for c's identity was processed after Unregister(c)
    hubTook,    \* history: how many Register / Unregister events of c the Hub received
    pending,    \* the goroutines blocked on a Hub channel, in the order they began
    written,    \* history: ids the write pump wrote to c's socket, in order
    enq,        \* history: ids the Hub enqueued on c.Send, in order
    closeSent   \* history: the write pump issued the close frame

vars == <<hpc, rpc, wpc, UserID, Send, closed, sockClosed, Clients, msgReq, message,
          messages, users, nextId, crashed, refreshed, failed, dispatched, regSince,
          hubTook, pending, written, enq, closeSent>>

NoStamp == [kind |-> "none", conn |-> 0]

Init ==
    /\ hpc = [c \in Conns |-> "start"]
    /\ rpc = [c \in Conns |-> "idle"]
    /\ wpc = [c \in Conns |-> "idle"]
    /\ UserID = [c \in Conns |-> ""]
    /\ Send = [c \in Conns |-> <<>>]
    /\ closed = [c \in Conns |-> FALSE]
    /\ sockClosed = [c \in Conns |-> FALSE]
    /\ Clients = [u \in {} |-> 0]
    /\ msgReq = [c \in Conns |-> NoReq]
    /\ message = [c \in Conns |-> NoMsg]
    /\ messages = {}
    /\ users = [u \in Users |-> [online |-> FALSE, last_seen |-> NoStamp]]
    /\ nextId = 1
    /\ crashed = FALSE
    /\ refreshed = {}
    /\ failed = {}
    /\ dispatched = {}
    /\ regSince = [c \in Conns |-> FALSE]
    /\ hubTook = [c \in Conns |-> [reg |-> 0, unreg |-> 0]]
    /\ pending = <<>>
    /\ written = [c \in Conns |-> <<>>]
    /\ enq = [c \in Conns |-> <<>>]
    /\ closeSent = [c \in Conns |-> FALSE]

\* ------------------------------------------------------------- helpers
\* Go map operations on Hub.Clients
MapSet(m, k, v) == [x \in (DOMAIN m) \cup {k} |-> IF x = k THEN v ELSE m[x]]

MapDelete(m, k) == [x \in (DOMAIN m) \ {k} |-> m[x]]

\* a goroutine leaves the Hub channel it was blocked on
Without(q, c) == SelectSeq(q, LAMBDA x : x # c)

\* UpdateOne on the users collection: $set of the given fields on the matching document
UpdateOne(coll, uid, fields) ==
    IF uid \in DOMAIN coll
    THEN [coll EXCEPT ![uid] = [f \in DOMAIN coll[uid] |->
                                   IF f \in DOMAIN fields THEN fields[f] ELSE coll[uid][f]]]
    ELSE coll

\* the Hub-owned part of the state, threaded through one Hub turn
HubState == [Clients |-> Clients, Send |-> Send, closed |-> closed, crashed |-> crashed]

\* close(ch): panics on a closed channel
CloseChan(h, c) ==
    IF h.closed[c]
    THEN [h EXCEPT !.crashed = TRUE]
    ELSE [h EXCEPT !.closed[c] = TRUE]

\* the Hub channel a Connection's goroutine is blocked sending on, if any
\* (line 142: hub.Register, line 180: hub.Unregister, line 231: hub.Broadcast)
Offers(c) ==
    IF hpc[c] = "register" THEN "Register"
    ELSE IF rpc[c] = "unregister" THEN "Unregister"
    ELSE IF rpc[c] = "broadcast" THEN "Broadcast"
    ELSE "none"

\* senders blocked on one unbuffered channel are received from in the order they
\* blocked; the select of Hub.run (line 48) chooses freely among the channels
FirstOn(c) ==
    Head(SelectSeq(pending, LAMBDA d : Offers(d) = Offers(c))) = c

\* ------------------------------------------------------ WebSocketChat
\* a handshake that does not test the user_id claim for emptiness
WebSocketChat_NoClaimCheck(c, tokenStr) ==
    /\ ~crashed
    /\ hpc[c] = "start"
    /\ \A d \in Conns : d < c => hpc[d] # "start"
    /\ IF tokenStr = "" \/ ~TokenValid(tokenStr)
       THEN /\ hpc' = [hpc EXCEPT ![c] = "closed"]
            /\ sockClosed' = [sockClosed EXCEPT ![c] = TRUE]
            /\ UNCHANGED <<UserID, Send, pending>>
       ELSE /\ hpc' = [hpc EXCEPT ![c] = "register"]
            /\ UserID' = [UserID EXCEPT ![c] = ClaimUserID(tokenStr)]
            /\ Send' = [Send EXCEPT ![c] = <<>>]
            /\ pending' = Append(pending, c)
            /\ UNCHANGED sockClosed
    /\ UNCHANGED <<rpc, wpc, closed, Clients, msgReq, message, messages, users, nextId,
                   crashed, refreshed, failed, dispatched, regSince,
                   hubTook, written, enq, closeSent>>

\* lines 104-139: the credential gate, then the Client is created
WebSocketChat(c, tokenStr) ==
    /\ ~crashed
    /\ hpc[c] = "start"
    /\ \A d \in Conns : d < c => hpc[d] # "start"
    /\ IF tokenStr = "" \/ ~TokenValid(tokenStr) \/ ClaimUserID(tokenStr) = ""
       THEN /\ hpc' = [hpc EXCEPT ![c] = "closed"]
            /\ sockClosed' = [sockClosed EXCEPT ![c] = TRUE]
            /\ UNCHANGED <<UserID, Send, pending>>
       ELSE /\ hpc' = [hpc EXCEPT ![c] = "register"]
            /\ UserID' = [UserID EXCEPT ![c] = ClaimUserID(tokenStr)]
            /\ Send' = [Send EXCEPT ![c] = <<>>]
            /\ pending' = Append(pending, c)
            /\ UNCHANGED sockClosed
    /\ UNCHANGED <<rpc, wpc, closed, Clients, msgReq, message, messages, users, nextId,
                   crashed, refreshed, failed, dispatched, regSince,
                   hubTook, written, enq, closeSent>>

\* lines 144-146: go client.writePump(); go client.readPump()
StartPumps(c) ==
    /\ ~crashed
    /\ hpc[c] = "spawn"
    /\ hpc' = [hpc EXCEPT ![c] = "done"]
    /\ wpc' = [wpc EXCEPT ![c] = "run"]
    /\ rpc' = [rpc EXCEPT ![c] = "read"]
    /\ UNCHANGED <<UserID, Send, closed, sockClosed, Clients, msgReq, message, messages,
                   users, nextId, crashed, refreshed, failed, dispatched, regSince,
                   hubTook, pending, written, enq, closeSent>>

\* ------------------------------------------------------------ Hub.run
\* a Register case that stores the client under a key that is not its identity
HubRegister_FixedKey(c) ==
    /\ ~crashed
    /\ hpc[c] = "register"
    /\ FirstOn(c)
    /\ Clients' = MapSet(Clients, "A", c)
    /\ users' = UpdateOne(users, UserID[c],
                          [online |-> TRUE, last_seen |-> [kind |-> "register", conn |-> c]])
    /\ hpc' = [hpc EXCEPT ![c] = "spawn"]
    /\ regSince' = [d \in Conns |->
                      IF UserID[d] = UserID[c] /\ rpc[d] \in {"closing", "done"}
                      THEN TRUE ELSE regSince[d]]
    /\ hubTook' = [hubTook EXCEPT ![c].reg = @ + 1]
    /\ pending' = Without(pending, c)
    /\ UNCHANGED <<rpc, wpc, UserID, Send, closed, sockClosed, msgReq, message, messages,
                   nextId, crashed, refreshed, failed, dispatched, written, enq, closeSent>>

\* a Register case that closes the queue of the Connection it displaces
HubRegister_CloseDisplaced(c) ==
    /\ ~crashed
    /\ hpc[c] = "register"
    /\ FirstOn(c)
    /\ Clients' = MapSet(Clients, UserID[c], c)
    /\ closed' = IF UserID[c] \in DOMAIN Clients /\ Clients[UserID[c]] # c
                 THEN [closed EXCEPT ![Clients[UserID[c]]] = TRUE]
                 ELSE closed
    /\ users' = UpdateOne(users, UserID[c],
                          [online |-> TRUE, last_seen |-> [kind |-> "register", conn |-> c]])
    /\ hpc' = [hpc EXCEPT ![c] = "spawn"]
    /\ regSince' = [d \in Conns |->
                      IF UserID[d] = UserID[c] /\ rpc[d] \in {"closing", "done"}
                      THEN TRUE ELSE regSince[d]]
    /\ hubTook' = [hubTook EXCEPT ![c].reg = @ + 1]
    /\ pending' = Without(pending, c)
    /\ UNCHANGED <<rpc, wpc, UserID, Send, sockClosed, msgReq, message, messages,
                   nextId, crashed, refreshed, failed, dispatched,
                   written, enq, closeSent>>

\* case client := <-h.Register (lines 49-60), rendezvous with line 142
HubRegister(c) ==
    /\ ~crashed
    /\ hpc[c] = "register"
    /\ FirstOn(c)
    /\ Clients' = MapSet(Clients, UserID[c], c)
    /\ users' = UpdateOne(users, UserID[c],
                          [online |-> TRUE, last_seen |-> [kind |-> "register", conn |-> c]])
    /\ hpc' = [hpc EXCEPT ![c] = "spawn"]
    /\ regSince' = [d \in Conns |->
                      IF UserID[d] = UserID[c] /\ rpc[d] \in {"closing", "done"}
                      THEN TRUE ELSE regSince[d]]
    /\ hubTook' = [hubTook EXCEPT ![c].reg = @ + 1]
    /\ pending' = Without(pending, c)
    /\ UNCHANGED <<rpc, wpc, UserID, Send, closed, sockClosed, msgReq, message, messages,
                   nextId, crashed, refreshed, failed, dispatched,
                   written, enq, closeSent>>

\* line 64: if _, ok := h.Clients[client.UserID]; ok
UnregisterHit(h, c) == UserID[c] \in DOMAIN h.Clients

\* lines 65-66: delete(h.Clients, client.UserID); close(client.Send)
UnregisterTurn(h, c) ==
    IF UnregisterHit(h, c)
    THEN CloseChan([h EXCEPT !.Clients = MapDelete(h.Clients, UserID[c])], c)
    ELSE h

\* case client := <-h.Unregister (lines 62-76), rendezvous with line 180
HubUnregister(c) ==
    /\ ~crashed
    /\ rpc[c] = "unregister"
    /\ FirstOn(c)
    /\ LET h == UnregisterTurn(HubState, c)
           wrote == UnregisterHit(HubState, c) /\ ~h.crashed
       IN /\ Clients' = h.Clients
          /\ closed' = h.closed
          /\ crashed' = h.crashed
          /\ users' = IF wrote
                      THEN UpdateOne(users, UserID[c],
                                     [online |-> FALSE,
                                      last_seen |-> [kind |-> "unregister", conn |-> c]])
                      ELSE users
    /\ rpc' = [rpc EXCEPT ![c] = "closing"]
    /\ regSince' = [regSince EXCEPT ![c] = FALSE]
    /\ hubTook' = [hubTook EXCEPT ![c].unreg = @ + 1]
    /\ pending' = Without(pending, c)
    /\ UNCHANGED <<hpc, wpc, UserID, Send, sockClosed, msgReq, message, messages, nextId,
                   refreshed, failed, dispatched,
                   written, enq, closeSent>>

\* Deliver that leaves a slow consumer registered and merely drops the message
Deliver_NoEvict(h, uid, m) ==
    IF h.crashed \/ uid \notin DOMAIN h.Clients
    THEN h
    ELSE LET c == h.Clients[uid]
         IN IF h.closed[c]
            THEN [h EXCEPT !.crashed = TRUE]
            ELSE IF Len(h.Send[c]) < QueueCap
                 THEN [h EXCEPT !.Send[c] = Append(h.Send[c], m)]
                 ELSE h

\* Deliver that enqueues without looking at the queue's capacity
Deliver_NoCap(h, uid, m) ==
    IF h.crashed \/ uid \notin DOMAIN h.Clients
    THEN h
    ELSE LET c == h.Clients[uid]
         IN IF h.closed[c]
            THEN [h EXCEPT !.crashed = TRUE]
            ELSE [h EXCEPT !.Send[c] = Append(h.Send[c], m)]

\* an eviction that closes the full queue but keeps the registry entry
Deliver_EvictKeepsEntry(h, uid, m) ==
    IF h.crashed \/ uid \notin DOMAIN h.Clients
    THEN h
    ELSE LET c == h.Clients[uid]
         IN IF h.closed[c]
            THEN [h EXCEPT !.crashed = TRUE]
            ELSE IF Len(h.Send[c]) < QueueCap
                 THEN [h EXCEPT !.Send[c] = Append(h.Send[c], m)]
                 ELSE CloseChan(h, c)

\* lines 81-88 and 91-98: look the identity up, non-blocking send, evict on a full queue
Deliver(h, uid, m) ==
    IF h.crashed \/ uid \notin DOMAIN h.Clients
    THEN h
    ELSE LET c == h.Clients[uid]
         IN IF h.closed[c]
            THEN [h EXCEPT !.crashed = TRUE]
            ELSE IF Len(h.Send[c]) < QueueCap
                 THEN [h EXCEPT !.Send[c] = Append(h.Send[c], m)]
                 ELSE CloseChan([h EXCEPT !.Clients = MapDelete(h.Clients, uid)], c)

\* a Broadcast turn that forgets the sender's confirmation
BroadcastTurn_NoEcho(h, m) == Deliver(h, m.receiver_id, m)

\* a Broadcast turn that skips the confirmation when the receiver is offline
BroadcastTurn_EchoIfLive(h, m) ==
    IF m.receiver_id \in DOMAIN h.Clients
    THEN Deliver(Deliver(h, m.receiver_id, m), m.sender_id, m)
    ELSE h

\* lines 79-99: receiver first, then the sender's confirmation
BroadcastTurn(h, m) == Deliver(Deliver(h, m.receiver_id, m), m.sender_id, m)

\* case message := <-h.Broadcast (lines 78-99), rendezvous with line 231
HubBroadcast(c) ==
    /\ ~crashed
    /\ rpc[c] = "broadcast"
    /\ FirstOn(c)
    /\ LET h == BroadcastTurn(HubState, message[c])
       IN /\ Clients' = h.Clients
          /\ Send' = h.Send
          /\ closed' = h.closed
          /\ crashed' = h.crashed
          /\ enq' = [d \in Conns |-> IF Len(h.Send[d]) > Len(Send[d])
                                     THEN Append(enq[d], message[c].id) ELSE enq[d]]
    /\ dispatched' = dispatched \cup {message[c].id}
    /\ rpc' = [rpc EXCEPT ![c] = "read"]
    /\ msgReq' = [msgReq EXCEPT ![c] = NoReq]
    /\ message' = [message EXCEPT ![c] = NoMsg]
    /\ pending' = Without(pending, c)
    /\ UNCHANGED <<hpc, wpc, UserID, sockClosed, messages, users, nextId, refreshed, failed, regSince,
                   hubTook, written, closeSent>>

\* ----------------------------------------------------------- readPump
\* a read pump whose exit releases the socket without the deferred Unregister
ReadError_NoUnregister(c) ==
    /\ ~crashed
    /\ rpc[c] = "read"
    /\ rpc' = [rpc EXCEPT ![c] = "closing"]
    /\ UNCHANGED <<hpc, wpc, UserID, Send, closed, sockClosed, Clients, msgReq, message,
                   messages, users, nextId, crashed, refreshed, failed, dispatched, regSince,
                   hubTook, pending, written, enq, closeSent>>

\* lines 192-194, err != nil: the peer went away, the deadline passed or the socket was closed
ReadError(c) ==
    /\ ~crashed
    /\ rpc[c] = "read"
    /\ rpc' = [rpc EXCEPT ![c] = "unregister"]
    /\ pending' = Append(pending, c)
    /\ UNCHANGED <<hpc, wpc, UserID, Send, closed, sockClosed, Clients, msgReq, message,
                   messages, users, nextId, crashed, refreshed, failed, dispatched, regSince,
                   hubTook, written, enq, closeSent>>

\* the gate without the self-address check
Rejected_NoSelfCheck(c, r) == Len(Validate(r)) > 0

\* the gate without the validation check
Rejected_NoValidate(c, r) == r.receiver_id = UserID[c]

\* lines 197-204: the two gates that `continue`
Rejected(c, r) == Len(Validate(r)) > 0 \/ r.receiver_id = UserID[c]

\* lines 207-215
NewMessage(c, r, id) ==
    [id |-> id, sender_id |-> UserID[c], receiver_id |-> r.receiver_id,
     content |-> r.content, type |-> r.type, read |-> FALSE]

\* lines 191-215: one inbound frame decoded into msgReq, validated, checked for
\* self-address and turned into a message
ReadJSON(c, r) ==
    /\ ~crashed
    /\ rpc[c] = "read"
    /\ ~sockClosed[c]
    /\ msgReq' = [msgReq EXCEPT ![c] = r]
    /\ IF Rejected(c, r)
       THEN /\ rpc' = [rpc EXCEPT ![c] = "continue"]
            /\ UNCHANGED <<message, nextId>>
       ELSE /\ nextId <= MaxMsgs
            /\ rpc' = [rpc EXCEPT ![c] = "insert"]
            /\ message' = [message EXCEPT ![c] = NewMessage(c, r, nextId)]
            /\ nextId' = nextId + 1
    /\ UNCHANGED <<hpc, wpc, UserID, Send, closed, sockClosed, Clients, messages, users,
                   crashed, refreshed, failed, dispatched, regSince,
                   hubTook, pending, written, enq, closeSent>>

\* a drop that leaves the loop as a read error does
Continue_Break(c) ==
    /\ ~crashed
    /\ rpc[c] = "continue"
    /\ rpc' = [rpc EXCEPT ![c] = "unregister"]
    /\ msgReq' = [msgReq EXCEPT ![c] = NoReq]
    /\ message' = [message EXCEPT ![c] = NoMsg]
    /\ pending' = Append(pending, c)
    /\ UNCHANGED <<hpc, wpc, UserID, Send, closed, sockClosed, Clients, messages, users,
                   nextId, crashed, refreshed, failed, dispatched, regSince,
                   hubTook, written, enq, closeSent>>

\* lines 198, 203, 221: continue, back to the head of the loop with fresh locals
Continue(c) ==
    /\ ~crashed
    /\ rpc[c] = "continue"
    /\ rpc' = [rpc EXCEPT ![c] = "read"]
    /\ msgReq' = [msgReq EXCEPT ![c] = NoReq]
    /\ message' = [message EXCEPT ![c] = NoMsg]
    /\ UNCHANGED <<hpc, wpc, UserID, Send, closed, sockClosed, Clients, messages, users,
                   nextId, crashed, refreshed, failed, dispatched, regSince,
                   hubTook, pending, written, enq, closeSent>>

\* InsertOne whose error is logged but does not `continue`
InsertOne_IgnoreError(c, ok) ==
    /\ ~crashed
    /\ rpc[c] = "insert"
    /\ IF ok
       THEN /\ messages' = messages \cup {message[c]}
            /\ UNCHANGED failed
       ELSE /\ failed' = failed \cup {message[c].id}
            /\ UNCHANGED messages
    /\ rpc' = [rpc EXCEPT ![c] = "lastseen"]
    /\ UNCHANGED <<hpc, wpc, UserID, Send, closed, sockClosed, Clients, msgReq, message,
                   users, nextId, crashed, refreshed, dispatched, regSince,
                   hubTook, pending, written, enq, closeSent>>

\* lines 218-222: InsertOne; err != nil logs and continues
InsertOne(c, ok) ==
    /\ ~crashed
    /\ rpc[c] = "insert"
    /\ IF ok
       THEN /\ messages' = messages \cup {message[c]}
            /\ rpc' = [rpc EXCEPT ![c] = "lastseen"]
            /\ UNCHANGED failed
       ELSE /\ failed' = failed \cup {message[c].id}
            /\ rpc' = [rpc EXCEPT ![c] = "continue"]
            /\ UNCHANGED messages
    /\ UNCHANGED <<hpc, wpc, UserID, Send, closed, sockClosed, Clients, msgReq, message,
                   users, nextId, crashed, refreshed, dispatched, regSince,
                   hubTook, pending, written, enq, closeSent>>

\* a refresh that also marks the sender online
UpdateLastSeen_SetsOnline(c) ==
    /\ ~crashed
    /\ rpc[c] = "lastseen"
    /\ users' = UpdateOne(users, UserID[c],
                          [online |-> TRUE, last_seen |-> [kind |-> "message", conn |-> c]])
    /\ refreshed' = refreshed \cup {message[c].id}
    /\ rpc' = [rpc EXCEPT ![c] = "broadcast"]
    /\ pending' = Append(pending, c)
    /\ UNCHANGED <<hpc, wpc, UserID, Send, closed, sockClosed, Clients, msgReq, message,
                   messages, nextId, crashed, failed, dispatched, regSince,
                   hubTook, written, enq, closeSent>>

\* lines 225-228: refresh the sender's last_seen, result ignored
UpdateLastSeen(c) ==
    /\ ~crashed
    /\ rpc[c] = "lastseen"
    /\ users' = UpdateOne(users, UserID[c],
                          [last_seen |-> [kind |-> "message", conn |-> c]])
    /\ refreshed' = refreshed \cup {message[c].id}
    /\ rpc' = [rpc EXCEPT ![c] = "broadcast"]
    /\ pending' = Append(pending, c)
    /\ UNCHANGED <<hpc, wpc, UserID, Send, closed, sockClosed, Clients, msgReq, message,
                   messages, nextId, crashed, failed, dispatched, regSince,
                   hubTook, written, enq, closeSent>>

\* line 181: c.Conn.Close() in the deferred function, after the Unregister was taken
ReadPumpClose(c) ==
    /\ ~crashed
    /\ rpc[c] = "closing"
    /\ rpc' = [rpc EXCEPT ![c] = "done"]
    /\ sockClosed' = [sockClosed EXCEPT ![c] = TRUE]
    /\ UNCHANGED <<hpc, wpc, UserID, Send, closed, Clients, msgReq, message, messages, users,
                   nextId, crashed, refreshed, failed, dispatched, regSince,
                   hubTook, pending, written, enq, closeSent>>

\* a write that leaves the message it wrote on the queue
WriteMessage_NoDequeue(c, err) ==
    /\ ~crashed
    /\ wpc[c] = "run"
    /\ Len(Send[c]) > 0
    /\ sockClosed[c] => err
    /\ IF err
       THEN /\ wpc' = [wpc EXCEPT ![c] = "done"]
            /\ sockClosed' = [sockClosed EXCEPT ![c] = TRUE]
       ELSE UNCHANGED <<wpc, sockClosed>>
    /\ written' = IF err THEN written ELSE [written EXCEPT ![c] = Append(@, Head(Send[c]).id)]
    /\ UNCHANGED <<hpc, rpc, UserID, Send, closed, Clients, msgReq, message, messages, users,
                   nextId, crashed, refreshed, failed, dispatched, regSince,
                   hubTook, pending, enq, closeSent>>

\* ---------------------------------------------------------- writePump
\* lines 158-167 with ok: one queued message; a write error ends the pump (lines 151-154)
WriteMessage(c, err) ==
    /\ ~crashed
    /\ wpc[c] = "run"
    /\ Len(Send[c]) > 0
    /\ sockClosed[c] => err
    /\ Send' = [Send EXCEPT ![c] = Tail(Send[c])]
    /\ IF err
       THEN /\ wpc' = [wpc EXCEPT ![c] = "done"]
            /\ sockClosed' = [sockClosed EXCEPT ![c] = TRUE]
       ELSE UNCHANGED <<wpc, sockClosed>>
    /\ written' = IF err THEN written ELSE [written EXCEPT ![c] = Append(@, Head(Send[c]).id)]
    /\ UNCHANGED <<hpc, rpc, UserID, closed, Clients, msgReq, message, messages, users,
                   nextId, crashed, refreshed, failed, dispatched, regSince,
                   hubTook, pending, enq, closeSent>>

\* a close branch taken as soon as the queue is closed, items left or not
WriteClose_Early(c) ==
    /\ ~crashed
    /\ wpc[c] = "run"
    /\ closed[c]
    /\ wpc' = [wpc EXCEPT ![c] = "done"]
    /\ sockClosed' = [sockClosed EXCEPT ![c] = TRUE]
    /\ closeSent' = [closeSent EXCEPT ![c] = TRUE]
    /\ UNCHANGED <<hpc, rpc, UserID, Send, closed, Clients, msgReq, message, messages, users,
                   nextId, crashed, refreshed, failed, dispatched, regSince,
                   hubTook, pending, written, enq>>

\* lines 160-163: the queue is closed and drained: close frame, return
WriteClose(c) ==
    /\ ~crashed
    /\ wpc[c] = "run"
    /\ Len(Send[c]) = 0
    /\ closed[c]
    /\ wpc' = [wpc EXCEPT ![c] = "done"]
    /\ sockClosed' = [sockClosed EXCEPT ![c] = TRUE]
    /\ closeSent' = [closeSent EXCEPT ![c] = TRUE]
    /\ UNCHANGED <<hpc, rpc, UserID, Send, closed, Clients, msgReq, message, messages, users,
                   nextId, crashed, refreshed, failed, dispatched, regSince,
                   hubTook, pending, written, enq>>

\* lines 169-173: the keepalive ping; only a failed ping changes anything
WritePing(c, err) ==
    /\ ~crashed
    /\ wpc[c] = "run"
    /\ sockClosed[c] => err
    /\ IF err
       THEN /\ wpc' = [wpc EXCEPT ![c] = "done"]
            /\ sockClosed' = [sockClosed EXCEPT ![c] = TRUE]
       ELSE UNCHANGED <<wpc, sockClosed>>
    /\ UNCHANGED <<hpc, rpc, UserID, Send, closed, Clients, msgReq, message, messages, users,
                   nextId, crashed, refreshed, failed, dispatched, regSince,
                   hubTook, pending, written, enq, closeSent>>

\* ------------------------------------------------------- specification
Next ==
    \/ \E c \in Conns, t \in Tokens : WebSocketChat(c, t)
    \/ \E c \in Conns : StartPumps(c)
    \/ \E c \in Conns : HubRegister(c)
    \/ \E c \in Conns : HubUnregister(c)
    \/ \E c \in Conns : HubBroadcast(c)
    \/ \E c \in Conns, r \in Requests : ReadJSON(c, r)
    \/ \E c \in Conns : ReadError(c)
    \/ \E c \in Conns : Continue(c)
    \/ \E c \in Conns, ok \in BOOLEAN : InsertOne(c, ok)
    \/ \E c \in Conns : UpdateLastSeen(c)
    \/ \E c \in Conns : ReadPumpClose(c)
    \/ \E c \in Conns, err \in BOOLEAN : WriteMessage(c, err)
    \/ \E c \in Conns : WriteClose(c)
    \/ \E c \in Conns, err \in BOOLEAN : WritePing(c, err)

Spec == Init /\ [][Next]_vars

\* ================================================================ claims
\* the Hub takes c's Unregister / c's Broadcast in this step
UnregisterStep(c) == rpc[c] = "unregister" /\ rpc'[c] = "closing"

BroadcastStep(c) == rpc[c] = "broadcast" /\ rpc'[c] = "read"

Registered(c) == UserID[c] \in DOMAIN Clients /\ Clients[UserID[c]] = c

Full(c) == Len(Send[c]) >= QueueCap

\* closed by a dispatch overflow: closed although the Hub has not taken c's Unregister
Evicted(c) == closed[c] /\ rpc[c] \notin {"closing", "done"}

\* C1: when the Hub processes Unregister(c), the entry of c's identity is removed
\* only if it is exactly c; if the identity is mapped to a different (newer)
\* Connection, the registry, that Connection's queue and the persisted presence
\* are left unchanged.
C1_UnregisterOnlyExactConn ==
    [][\A c \in Conns :
         (UnregisterStep(c) /\ UserID[c] \in DOMAIN Clients /\ Clients[UserID[c]] # c)
         => /\ Clients' = Clients
            /\ Send'[Clients[UserID[c]]] = Send[Clients[UserID[c]]]
            /\ closed'[Clients[UserID[c]]] = closed[Clients[UserID[c]]]
            /\ users' = users]_vars

\* C2: no Hub step is a process-level fault: no queue is closed a second time
\* (an unrecovered panic of the Hub goroutine).
C2_NoProcessFault == ~crashed

\* C3: a Dispatch that finds the registered Connection of the receiver or of the
\* sender with a full queue removes that Connection from the registry and closes
\* its queue in the same step, does not enqueue the message on it, and still
\* enqueues on the other party's Connection if that one is registered and not full.
C3_OverflowEvicts ==
    [][\A c \in Conns : BroadcastStep(c) =>
         LET m == message[c]
             parties == <<m.receiver_id, m.sender_id>>
         IN \A i \in 1..2 :
              LET p == parties[i]
                  q == parties[3 - i]
              IN (p \in DOMAIN Clients /\ Full(Clients[p]))
                 => /\ p \notin DOMAIN Clients'
                    /\ closed'[Clients[p]]
                    /\ Send'[Clients[p]] = Send[Clients[p]]
                    /\ (q \in DOMAIN Clients /\ ~Full(Clients[q]))
                       => /\ Send'[Clients[q]] = Append(Send[Clients[q]], m)
                          /\ q \in DOMAIN Clients'
                          /\ Clients'[q] = Clients[q]]_vars

\* C3 witness: one party was evicted by an overflow while the other party, still
\* registered, holds a message between the two that the evicted one does not hold.
C3_Witness ==
    \E c, d \in Conns :
        /\ Evicted(c)
        /\ ~Registered(c)
        /\ Registered(d)
        /\ \E i \in 1..Len(Send[d]) :
              /\ {Send[d][i].sender_id, Send[d][i].receiver_id} = {UserID[c], UserID[d]}
              /\ \A j \in 1..Len(Send[c]) : Send[c][j] # Send[d][i]

\* C4: a Dispatch never blocks the Hub on a queue: no queue ever holds more than
\* its capacity, the Hub can take the Broadcast at the head of its channel whatever
\* the queues and the write pumps are doing, and the step leaves the Hub running.
C4_DispatchNeverBlocks ==
    /\ [](\A c \in Conns : Len(Send[c]) <= QueueCap)
    /\ [](\A c \in Conns :
            (~crashed /\ rpc[c] = "broadcast" /\ FirstOn(c)) => ENABLED HubBroadcast(c))
    /\ [][\A c \in Conns : BroadcastStep(c) => ~crashed']_vars

\* C4 witness: a Broadcast is offered while the queue of a registered party is
\* full and its write pump has not drained it.
C4_Witness ==
    \E c, d \in Conns :
        /\ rpc[c] = "broadcast"
        /\ Registered(d)
        /\ UserID[d] \in {message[c].receiver_id, message[c].sender_id}
        /\ Len(Send[d]) = QueueCap
        /\ wpc[d] = "run"

Ids(S) == {m.id : m \in S}

Queued(c) == {Send[c][i] : i \in 1..Len(Send[c])}

ReqOf(m) == [receiver_id |-> m.receiver_id, content |-> m.content, type |-> m.type]

\* every message the core holds anywhere: stored, queued, or in a pipeline
Held == messages \cup UNION {Queued(c) : c \in Conns}
                 \cup {message[c] : c \in {d \in Conns : message[d] # NoMsg}}

\* C5: whatever reaches Hub.Dispatch was inserted into the store first by the same
\* pipeline invocation, in the order insert, last_seen refresh, dispatch; a failed
\* insert is followed by neither refresh nor dispatch and is not retried.
C5_PersistBeforeDispatch ==
    /\ dispatched \subseteq refreshed
    /\ refreshed \subseteq Ids(messages)
    /\ failed \cap Ids(messages) = {}
    /\ \A c \in Conns :
         /\ rpc[c] = "insert"
            => message[c].id \notin (Ids(messages) \cup refreshed \cup dispatched \cup failed)
         /\ rpc[c] = "lastseen"
            => message[c] \in messages /\ message[c].id \notin (refreshed \cup dispatched)
         /\ rpc[c] = "broadcast"
            => /\ message[c] \in messages
               /\ message[c].id \in refreshed
               /\ message[c].id \notin dispatched
         /\ message[c].id \in failed => rpc[c] = "continue"
         /\ \A m \in Queued(c) : m \in messages /\ m.id \in dispatched

\* C5 witness: one message was dispatched and sits in a queue, another one's insert failed.
C5_Witness ==
    /\ failed # {}
    /\ \E c \in Conns : \E m \in Queued(c) : m.id \in dispatched /\ m \in messages

\* C6: a request whose receiver is the identity of the Connection it arrived on is
\* dropped with no effect: no message with sender id = receiver id is ever stored,
\* queued or in a pipeline.
C6_NoSelfAddressed ==
    /\ [](\A m \in Held : m.sender_id # m.receiver_id)
    /\ [][\A c \in Conns :
            (rpc'[c] # rpc[c] /\ msgReq'[c] \in Requests /\ msgReq'[c].receiver_id = UserID[c])
            => /\ rpc'[c] = "continue"
               /\ UNCHANGED <<messages, users, Send, closed, Clients, message, nextId,
                              refreshed, dispatched>>]_vars

\* C6 witness: a registered Connection has just dropped an otherwise valid
\* self-addressed request.
C6_Witness ==
    \E c \in Conns :
        /\ rpc[c] = "continue"
        /\ Registered(c)
        /\ msgReq[c].receiver_id = UserID[c]
        /\ Len(Validate(msgReq[c])) = 0
        /\ message[c] = NoMsg

\* C7: a request with at least one validation error causes no store insert, no
\* last_seen refresh, no dispatch and no enqueue on any queue (no echo either).
C7_InvalidDropped ==
    /\ [](\A m \in Held : Len(Validate(ReqOf(m))) = 0)
    /\ [][\A c \in Conns :
            (rpc'[c] # rpc[c] /\ msgReq'[c] \in Requests /\ Len(Validate(msgReq'[c])) > 0)
            => /\ rpc'[c] = "continue"
               /\ UNCHANGED <<messages, users, Send, closed, Clients, message, nextId,
                              refreshed, dispatched>>]_vars

\* C7 witness: a registered Connection has just dropped a request with empty
\* content, addressed to another identity.
C7_Witness ==
    \E c \in Conns :
        /\ rpc[c] = "continue"
        /\ Registered(c)
        /\ msgReq[c].content = <<>>
        /\ msgReq[c].receiver_id \in Users \ {UserID[c]}
        /\ message[c] = NoMsg
        /\ Send[c] = <<>>

C9_OfflineReceiverEchoOnly ==
    [][\A c \in Conns : BroadcastStep(c) =>
         LET m == message[c]
             a == m.sender_id
         IN (m.receiver_id \notin DOMAIN Clients /\ a \in DOMAIN Clients)
            => /\ m \in messages
               /\ Send'[Clients[a]] = Append(Send[Clients[a]], m)
               /\ \A d \in Conns \ {Clients[a]} : Send'[d] = Send[d]
               /\ Clients' = Clients
               /\ closed' = closed
               /\ ~crashed']_vars

\* C9 (amended): a valid message from A to an identity with no registry entry is
\* stored and dispatched; the Dispatch enqueues it only on A's registered
\* Connection, provided that queue is not full, touches no other queue and raises
\* no error; it evicts no one, except A's own Connection when A's queue is full.
C9_OfflineReceiverEchoUnlessFull ==
    [][\A c \in Conns : BroadcastStep(c) =>
         LET m == message[c]
             a == m.sender_id
         IN (m.receiver_id \notin DOMAIN Clients /\ a \in DOMAIN Clients)
            => /\ m \in messages
               /\ \A d \in Conns \ {Clients[a]} : Send'[d] = Send[d] /\ closed'[d] = closed[d]
               /\ ~crashed'
               /\ IF Full(Clients[a])
                  THEN /\ Send'[Clients[a]] = Send[Clients[a]]
                       /\ closed'[Clients[a]]
                       /\ Clients' = MapDelete(Clients, a)
                  ELSE /\ Send'[Clients[a]] = Append(Send[Clients[a]], m)
                       /\ closed' = closed
                       /\ Clients' = Clients]_vars

\* C9 witness: the registered Connection of A holds the echo of a stored message
\* whose receiver never connected, and no other queue holds anything.
C9_Witness ==
    \E c \in Conns :
        /\ Registered(c)
        /\ ~closed[c]
        /\ Len(Send[c]) > 0
        /\ Send[c][Len(Send[c])].sender_id = UserID[c]
        /\ Send[c][Len(Send[c])] \in messages
        /\ \A d \in Conns : UserID[d] # Send[c][Len(Send[c])].receiver_id
        /\ \A d \in Conns \ {c} : Send[d] = <<>> /\ ~closed[d]

\* C10: once a Connection's read pump has exited and the Hub has processed its
\* Unregister, the registry has no entry for that Connection and, unless a Register
\* for the identity was processed since, the persisted presence is online = false
\* with a last_seen that is not older than a disconnect or refresh.
C10_DisconnectedIsOffline ==
    \A c \in Conns :
        rpc[c] \in {"closing", "done"}
        => /\ ~Registered(c)
           /\ ~regSince[c]
              => /\ users[UserID[c]].online = FALSE
                 /\ users[UserID[c]].last_seen.kind \in {"unregister", "message"}

\* the Hub takes c's Register in this step
RegisterStep(c) == hpc[c] = "register" /\ hpc'[c] = "spawn"

\* C11: Unregister is idempotent: when the Hub processes Unregister(c) for a
\* Connection whose queue it already closed (an earlier Unregister(c), or an
\* overflow eviction of c), registry, queue states and presence do not change.
C11_UnregisterIdempotent ==
    [][\A c \in Conns :
         (UnregisterStep(c) /\ (closed[c] \/ hubTook[c].unreg > 0))
         => UNCHANGED <<Clients, closed, users, crashed>>]_vars

\* C12: the registry has at most one entry per user identity, and the entry
\* stored under identity u is a Connection whose own identity is u.
C12_RegistryKeyedByIdentity ==
    /\ DOMAIN Clients \subseteq Users
    /\ \A u \in DOMAIN Clients : Clients[u] \in Conns /\ UserID[Clients[u]] = u
    /\ \A u \in Users : Cardinality({c \in Conns : Registered(c) /\ UserID[c] = u}) <= 1
    /\ \A u \in Users :
         Cardinality({c \in Conns : \E k \in DOMAIN Clients : Clients[k] = c /\ UserID[c] = u}) <= 1

\* C12 witness: two live Connections of one identity, only the newer one registered.
C12_Witness ==
    \E c, d \in Conns :
        /\ c # d
        /\ UserID[c] = UserID[d]
        /\ Registered(d)
        /\ rpc[c] = "read" /\ rpc[d] = "read"
        /\ ~closed[c]

InLoop == {"read", "continue", "insert", "lastseen", "broadcast"}

\* C13: each Connection submits Unregister exactly once: when its read loop
\* exits, before the read pump releases the socket, and never before the Hub
\* accepted its Register; the write pump never submits Unregister.
C13_UnregisterExactlyOnce ==
    /\ [](\A c \in Conns :
            /\ hubTook[c].unreg <= 1
            /\ (rpc[c] \in {"closing", "done"}) <=> (hubTook[c].unreg = 1)
            /\ rpc[c] \in {"unregister", "closing", "done"} => hubTook[c].reg = 1)
    /\ [][\A c \in Conns :
            /\ hubTook'[c].unreg # hubTook[c].unreg
               => rpc[c] = "unregister" /\ rpc'[c] = "closing"
            /\ (rpc[c] \in InLoop /\ rpc'[c] \notin InLoop) => rpc'[c] = "unregister"
            /\ (rpc[c] # "done" /\ rpc'[c] = "done")
               => rpc[c] = "closing" /\ hubTook[c].unreg = 1
            /\ (wpc'[c] # wpc[c] /\ wpc[c] = "run")
               => hubTook' = hubTook /\ pending' = pending /\ rpc' = rpc]_vars

\* C13 witness: a Connection whose pumps both ended and whose single Unregister
\* the Hub received.
C13_Witness ==
    \E c \in Conns :
        rpc[c] = "done" /\ wpc[c] = "done" /\ hubTook[c].unreg = 1 /\ hubTook[c].reg = 1

\* absent, failing verification, or without a non-empty user identity claim
BadToken(t) == t = "" \/ ~TokenValid(t) \/ ClaimUserID(t) \notin Users

InRegistry(c) == \E k \in DOMAIN Clients : Clients[k] = c

\* C14: a handshake with an absent or unverifiable token closes the transport
\* and causes no Register, no registry or presence change and no pump start; a
\* successful one creates the Connection with an empty queue, has its Register
\* accepted by the Hub first and only then starts the two pumps.
C14_HandshakeGate ==
    /\ [](\A c \in Conns :
            /\ hpc[c] \in {"start", "closed", "register"}
               => /\ rpc[c] = "idle" /\ wpc[c] = "idle"
                  /\ hubTook[c].reg = 0
                  /\ ~InRegistry(c)
            /\ hpc[c] = "closed"
               => sockClosed[c] /\ UserID[c] = "" /\ Without(pending, c) = pending
            /\ (rpc[c] # "idle" \/ wpc[c] # "idle") => hubTook[c].reg = 1)
    /\ [][\A c \in Conns :
            /\ \A t \in Tokens :
                 (hpc[c] = "start" /\ WebSocketChat(c, t))
                 => IF BadToken(t)
                    THEN /\ hpc'[c] = "closed"
                         /\ sockClosed'[c]
                         /\ UNCHANGED <<Clients, users, rpc, wpc, pending, hubTook, UserID>>
                    ELSE /\ hpc'[c] = "register"
                         /\ UserID'[c] = ClaimUserID(t)
                         /\ Send'[c] = <<>> /\ ~closed'[c]
                         /\ pending' = Append(pending, c)
                         /\ UNCHANGED <<Clients, users, rpc, wpc, hubTook>>
            /\ (rpc[c] = "idle" /\ rpc'[c] # "idle") \/ (wpc[c] = "idle" /\ wpc'[c] # "idle")
               => /\ hubTook[c].reg = 1
                  /\ rpc'[c] = "read" /\ wpc'[c] = "run"]_vars

\* C14 witness: one handshake was refused, a later one went through: registered,
\* pumps running, queue still empty.
C14_Witness ==
    \E c, d \in Conns :
        /\ hpc[c] = "closed" /\ sockClosed[c] /\ rpc[c] = "idle"
        /\ hpc[d] = "done" /\ Registered(d) /\ rpc[d] = "read" /\ wpc[d] = "run"
        /\ enq[d] = <<>>

LastSeenStep(c) == rpc[c] = "lastseen" /\ rpc'[c] = "broadcast"

\* C15: the pipeline's last_seen refresh changes only the sender's last_seen and
\* leaves every online flag and the registry unchanged; the online flag becomes
\* true only in the Hub's Register step and false only in a Hub Unregister step
\* that removes an entry.
C15_OnlineFlagWriters ==
    [][/\ \A c \in Conns :
            LastSeenStep(c)
            => /\ \A u \in Users : users'[u].online = users[u].online
               /\ \A u \in Users \ {UserID[c]} : users'[u] = users[u]
               /\ users'[UserID[c]].last_seen = [kind |-> "message", conn |-> c]
               /\ Clients' = Clients
       /\ \A u \in Users :
            users'[u].online # users[u].online
            => IF users'[u].online
               THEN \E c \in Conns : RegisterStep(c) /\ UserID[c] = u
               ELSE \E c \in Conns : /\ UnregisterStep(c) /\ UserID[c] = u
                                     /\ u \in DOMAIN Clients /\ u \notin DOMAIN Clients']_vars

\* C15 witness: an identity that is persisted offline has had its last_seen
\* refreshed by a message afterwards and is still offline.
C15_Witness ==
    \E c \in Conns :
        /\ UserID[c] \in Users
        /\ users[UserID[c]].last_seen = [kind |-> "message", conn |-> c]
        /\ ~users[UserID[c]].online

\* c was taken by the Hub's Register case and the entry of its identity is no
\* longer c
Displaced(c) == hubTook[c].reg > 0 /\ ~Registered(c)

\* C16: when the Hub processes Register(c2) for an identity mapped to a different
\* Connection c1, the registry afterwards maps the identity to c2, c1's queue is
\* left open and unmodified, and no later dispatch enqueues a message on c1: a
\* Connection out of the registry never returns to it, and a dispatch enqueues
\* only on Connections that are in the registry.
C16_RegisterReplaces ==
    [][\A c \in Conns :
         /\ (RegisterStep(c) /\ UserID[c] \in DOMAIN Clients /\ Clients[UserID[c]] # c)
            => /\ Clients' = MapSet(Clients, UserID[c], c)
               /\ Clients'[UserID[c]] = c
               /\ Send'[Clients[UserID[c]]] = Send[Clients[UserID[c]]]
               /\ closed'[Clients[UserID[c]]] = closed[Clients[UserID[c]]]
               /\ enq' = enq
         /\ Displaced(c) => Displaced(c)'
         /\ enq'[c] # enq[c] => Registered(c) /\ \E d \in Conns : BroadcastStep(d)
         /\ (Displaced(c) /\ Len(Send'[c]) > Len(Send[c])) => FALSE]_vars

\* C16 witness: c2 replaced c1 while c1's queue was open, and a message was
\* dispatched to their identity afterwards: it is on c2's queue history, not c1's.
C16_Witness ==
    \E c1, c2 \in Conns :
        /\ c1 # c2 /\ UserID[c1] = UserID[c2]
        /\ Registered(c2) /\ hubTook[c1].reg > 0
        /\ ~closed[c1] /\ rpc[c1] = "read"
        /\ enq[c2] # <<>> /\ enq[c1] = <<>>

\* the Hub has taken c's Unregister: c's read pump has exited and its deferred
\* send on hub.Unregister has returned
Exited(c) == rpc[c] \in {"closing", "done"}

\* C17: every Connection whose read pump has exited eventually has its queue
\* closed, also with several Connections of one identity. Finite-run form: the
\* only close of c's queue outside the registry's reach is the one in the Hub's
\* turn for Unregister(c), and c is out of the registry for good after that
\* turn, so the queue is closed once the turn is over (in a process that has
\* not panicked) or it never will be.
C17_ExitedQueueClosed ==
    \A c \in Conns : (Exited(c) /\ ~crashed) => closed[c]

\* after the turn for Unregister(c), c is not in the registry and stays out, and
\* an open queue stays open: nothing can close it later
C17_NeverClosedLater ==
    /\ [](\A c \in Conns : (Exited(c) /\ ~closed[c]) => ~Registered(c))
    /\ [][\A c \in Conns : (Exited(c) /\ ~closed[c]) => (Exited(c) /\ ~closed[c])']_vars

\* the run of C17's failing input has happened: two Connections of one identity,
\* both read pumps exited, no panic, and one queue left open
C17_Stuck ==
    \E c1, c2 \in Conns :
        /\ c1 # c2 /\ UserID[c1] = UserID[c2] /\ ~crashed
        /\ Exited(c1) /\ Exited(c2) /\ closed[c1] /\ ~closed[c2]

\* C18: after its queue is closed, a write pump whose writes succeed writes the
\* messages enqueued before the close, in queue order, then sends the close
\* frame, terminates and releases the socket; a terminated write pump (closure,
\* write failure or ping failure) writes nothing further. In a state: a close
\* frame was sent only on a closed, drained queue all of whose messages were
\* written, and a terminated pump has released the socket; in a step: a write
\* takes the head of the queue, the close frame needs the closed empty queue, a
\* terminated pump stays terminated and writes nothing; and a running pump on a
\* closed queue can always take its next step.
C18_WritePumpDrainsThenCloses ==
    /\ [](\A c \in Conns :
            /\ closeSent[c] => /\ closed[c] /\ Send[c] = <<>>
                               /\ wpc[c] = "done"
                               /\ written[c] = enq[c]
            /\ wpc[c] = "done" => sockClosed[c]
            /\ (wpc[c] = "run" /\ closed[c] /\ ~crashed)
               => IF Send[c] = <<>> THEN ENABLED WriteClose(c)
                  ELSE ~sockClosed[c] => ENABLED WriteMessage(c, FALSE))
    /\ [][\A c \in Conns :
            /\ written'[c] # written[c]
               => /\ wpc[c] = "run" /\ Send[c] # <<>>
                  /\ written'[c] = Append(written[c], Head(Send[c]).id)
                  /\ Send'[c] = Tail(Send[c])
            /\ closeSent'[c] # closeSent[c]
               => /\ wpc[c] = "run" /\ closed[c] /\ Send[c] = <<>>
                  /\ closeSent'[c] /\ wpc'[c] = "done" /\ sockClosed'[c]
            /\ wpc[c] = "done"
               => /\ wpc'[c] = "done" /\ written'[c] = written[c]
                  /\ closeSent'[c] = closeSent[c]]_vars

\* C18 witness: a queue closed by an overflow, so with a message on it, was
\* drained by its write pump, which then sent the close frame.
C18_Witness ==
    \E c \in Conns :
        /\ Evicted(c) /\ closeSent[c]
        /\ enq[c] # <<>> /\ written[c] = enq[c]

\* c's pipeline drops the request it holds: a gate rejected it or the insert failed
DropStep(c) == rpc[c] \in {"read", "insert"} /\ rpc'[c] = "continue"

\* C19: a dropped request (validation failure, self-address, failed insert) does
\* not end the read loop. The drop and the return to the head of the loop change
\* neither the registry nor any queue, socket or presence and offer nothing to
\* the Hub; from the drop the read pump can only go back to reading, with fresh
\* locals, where every request that passes the gates is accepted into the
\* pipeline as on a Connection that never dropped one.
C19_DropKeepsLoop ==
    /\ [](\A c \in Conns :
            /\ rpc[c] = "continue"
               => /\ Without(pending, c) = pending /\ hubTook[c].unreg = 0
                  /\ ~crashed => ENABLED Continue(c)
            /\ rpc[c] = "read"
               => /\ msgReq[c] = NoReq /\ message[c] = NoMsg
                  /\ (~crashed /\ ~sockClosed[c] /\ nextId <= MaxMsgs)
                     => \A r \in Requests : ~Rejected(c, r) => ENABLED ReadJSON(c, r))
    /\ [][\A c \in Conns :
            /\ DropStep(c)
               => UNCHANGED <<Clients, Send, closed, sockClosed, users, messages,
                              pending, hubTook, dispatched, crashed>>
            /\ rpc[c] = "continue"
               => /\ rpc'[c] \in {"continue", "read"}
                  /\ rpc'[c] = "read"
                     => UNCHANGED <<Clients, Send, closed, sockClosed, users, messages,
                                    pending, hubTook, dispatched, crashed>>]_vars

\* C19 witness: the only Connection that ever handshook had a request dropped
\* after a failed insert and then had a later message persisted and dispatched.
C19_Witness ==
    \E c \in Conns :
        /\ \A d \in Conns \ {c} : hpc[d] = "start"
        /\ \E m \in messages :
              /\ m.sender_id = UserID[c] /\ m.id \in dispatched
              /\ \E f \in failed : f < m.id

\* the Hub takes the event c is offering
HubStep(c) == RegisterStep(c) \/ UnregisterStep(c) \/ BroadcastStep(c)

\* C20: the Hub processes register, unregister and dispatch events one at a time
\* and in strict arrival order: the event it takes is the one whose sender began
\* offering first among the events not yet taken, whatever their kinds and
\* Connections.
C20_StrictArrivalOrder ==
    [][\A c \in Conns : HubStep(c) => (pending # <<>> /\ Head(pending) = c)]_vars

\* what the three channels do give: one event per Hub turn, and arrival order
\* among the events of one kind
C20_OrderPerChannel ==
    [][\A c \in Conns :
         HubStep(c)
         => /\ \A d \in Conns \ {c} : ~HubStep(d)
            /\ pending' = Without(pending, c)
            /\ Head(SelectSeq(pending, LAMBDA d : Offers(d) = Offers(c))) = c]_vars

\* in Hub state h, a dispatch to identity uid would send on a closed queue
SendOnClosed(h, uid) == uid \in DOMAIN h.Clients /\ h.closed[h.Clients[uid]]

\* C21: in every reachable state every Connection in the registry has an open
\* queue; hence no dispatch attempts to enqueue on a closed queue, neither for
\* the receiver nor, after the receiver's turn, for the sender's confirmation.
C21_RegisteredQueueOpen ==
    /\ [](\A u \in DOMAIN Clients : ~closed[Clients[u]])
    /\ [][\A c \in Conns :
            BroadcastStep(c)
            => /\ ~SendOnClosed(HubState, message[c].receiver_id)
               /\ ~SendOnClosed(Deliver(HubState, message[c].receiver_id, message[c]),
                                message[c].sender_id)]_vars

\* C21 witness: one Connection's queue was closed, another Connection is in the
\* registry with an open queue, and a dispatch has enqueued on it.
C21_Witness ==
    \E c, d \in Conns :
        /\ c # d /\ closed[d]
        /\ Registered(c) /\ ~closed[c] /\ enq[c] # <<>>

IsPrefix(p, q) == Len(p) <= Len(q) /\ SubSeq(q, 1, Len(p)) = p

NoRepeat(q) == \A i, j \in 1..Len(q) : q[i] = q[j] => i = j

SeqIds(q) == [i \in 1..Len(q) |-> q[i].id]

====
